---- MODULE Spec2Model ----
(***************************************************************************)
(* A model of server_working.py: the per-client sliding-window rate        *)
(* limiter (rate_limit_check), the statistics accumulator (update_stats),  *)
(* the timeout-bounded generation call (generation_with_timeout) and the   *)
(* request handler that ties them together (chat_completions).             *)
(*                                                                         *)
(* Time is counted in whole seconds.  A Python list of timestamps is a     *)
(* sequence of naturals, the stats dict is a record.                       *)
(***************************************************************************)
EXTENDS Integers, Sequences, FiniteSets, TLC

VARIABLES
    now,                \* the reading of time.time()
    MODEL_AVAILABLE,    \* set once at import time (lines 100-106)
    request_counts,     \* client -> list of admitted timestamps
    stats,              \* the stats dict
    gc_collects,        \* gc.collect() calls made while serving the latest request
    pc,                 \* position of the request handler thread
    client_ip,          \* handler local: the client of the current request
    quick_mode,         \* handler local
    start_time,         \* handler local
    generation_start,   \* handler local
    timeout,            \* handler local
    body,               \* handler local: the class of the request's JSON body
    deadline_passed,    \* whether join() of the current request ended by its timeout
    response,           \* the response returned for the latest request
    generation_thread,  \* the state of the current request's generation thread
    abandoned,          \* generation threads left running by requests that timed out
    nticks,             \* environment: clock jumps taken between requests
    nreq,               \* environment: calls started in the bounded runs
    rl,                 \* concurrent rate_limit_check calls: thread -> frame
    admitted,           \* client -> calls of rate_limit_check that returned True
    st,                 \* concurrent stats writers: thread -> frame
    expected,           \* the increments the completed stats writes asked for
    hpc,                \* position of the thread serving GET /health
    snap,               \* the values GET /health has read so far
    resize_args,        \* the image size and mode of a resize_image_for_processing call
    resize_result       \* what that call returned or raised

handlerLocals == <<pc, client_ip, body, quick_mode, start_time, generation_start,
                   timeout, deadline_passed>>

envVars == <<nticks, nreq>>

concVars == <<rl, admitted>>

statVars == <<st, expected, hpc, snap>>

imgVars == <<resize_args, resize_result>>

vars == <<now, MODEL_AVAILABLE, request_counts, stats, gc_collects, handlerLocals,
          response, generation_thread, abandoned, envVars, concVars, statVars, imgVars>>

(***************************************************************************)
(* Program constants.                                                      *)
(***************************************************************************)
MAX_REQUESTS_PER_MINUTE == 60

MAX_REQUESTS_PER_HOUR == 100

ShortWindow == 60

LongWindow == 3600

RetryAfterMinute == 60

RetryAfterHour == 3600

QuickTimeout == 45

NormalTimeout == 90

QuickMaxSize == 216

NormalMaxSize == 382

(***************************************************************************)
(* Bounds of the model.                                                    *)
(***************************************************************************)
Clients == {"c1", "c2"}

\* Clock jumps between requests in the rate-limiter runs.
MaxTicks == 2

\* The jumps the clock may take between two requests.
TickSteps == {ShortWindow, LongWindow - ShortWindow}

\* A client's requests arrive in bursts: the clock jumps only when every
\* window holds a whole number of bursts for the current second, or after a
\* denial.
BurstSize == 20

\* At most one client holds more than LightCalls timestamps.
LightCalls == 1

\* Cap on the rate_limit_hits counter in the rate-limiter runs.
MaxDenials == 3

\* Requests received in a lifecycle run.
MaxRequests == 2

\* Seconds that pass in one step of the clock while a join() is waiting.
TickStep == 30

\* Threads that run rate_limit_check or the stats writes at the same time.
Threads == {"t1", "t2"}

\* Calls of rate_limit_check started in a concurrent run.
MaxCalls == 3

\* Stats writes started in a concurrent run.
MaxWrites == 2

\* The longest edge of the images handed to resize_image_for_processing.
MaxEdge == 400

(***************************************************************************)
(* rate_limit_check, lines 29-46.                                          *)
(***************************************************************************)
KeepAll(w, t) == w

\* lines 33-36: keep the timestamps younger than the long window
Prune(w, t) == SelectSeq(w, LAMBDA r : t - r < LongWindow)

RecentInclusive(w, t) == SelectSeq(w, LAMBDA r : t - r <= ShortWindow)

\* line 38: the timestamps younger than the short window
Recent(w, t) == SelectSeq(w, LAMBDA r : t - r < ShortWindow)

MinuteExceededStrict(recent) == Len(recent) > MAX_REQUESTS_PER_MINUTE

\* line 39
MinuteExceeded(recent) == Len(recent) >= MAX_REQUESTS_PER_MINUTE

HourNeverExceeded(w) == FALSE

HourExceededStrict(w) == Len(w) > MAX_REQUESTS_PER_HOUR

\* line 42
HourExceeded(w) == Len(w) >= MAX_REQUESTS_PER_HOUR

rate_limit_check_not_recording(w, t) ==
    LET pruned == Prune(w, t)
        recent_requests == Recent(pruned, t)
    IN  IF MinuteExceeded(recent_requests)
        THEN [ok |-> FALSE, limit_type |-> "minute", counts |-> pruned]
        ELSE IF HourExceeded(pruned)
        THEN [ok |-> FALSE, limit_type |-> "hour", counts |-> pruned]
        ELSE [ok |-> TRUE, limit_type |-> "none", counts |-> pruned]

rate_limit_check_hour_first(w, t) ==
    LET pruned == Prune(w, t)
        recent_requests == Recent(pruned, t)
    IN  IF HourExceeded(pruned)
        THEN [ok |-> FALSE, limit_type |-> "hour", counts |-> pruned]
        ELSE IF MinuteExceeded(recent_requests)
        THEN [ok |-> FALSE, limit_type |-> "minute", counts |-> pruned]
        ELSE [ok |-> TRUE, limit_type |-> "none", counts |-> Append(pruned, t)]

rate_limit_check_recording_denials(w, t) ==
    LET pruned == Prune(w, t)
        recent_requests == Recent(pruned, t)
    IN  IF MinuteExceeded(recent_requests)
        THEN [ok |-> FALSE, limit_type |-> "minute", counts |-> Append(pruned, t)]
        ELSE IF HourExceeded(pruned)
        THEN [ok |-> FALSE, limit_type |-> "hour", counts |-> Append(pruned, t)]
        ELSE [ok |-> TRUE, limit_type |-> "none", counts |-> Append(pruned, t)]

\* The whole function on one client's list w at time t: the decision and the
\* list it leaves in request_counts[client_ip].
rate_limit_check(w, t) ==
    LET pruned == Prune(w, t)
        recent_requests == Recent(pruned, t)
    IN  IF MinuteExceeded(recent_requests)
        THEN [ok |-> FALSE, limit_type |-> "minute", counts |-> pruned]
        ELSE IF HourExceeded(pruned)
        THEN [ok |-> FALSE, limit_type |-> "hour", counts |-> pruned]
        ELSE [ok |-> TRUE, limit_type |-> "none", counts |-> Append(pruned, t)]

(***************************************************************************)
(* stats and update_stats, lines 108-134.                                  *)
(* average_response_time is a float quotient; it is kept exactly, as the   *)
(* pair numerator / denominator.                                           *)
(***************************************************************************)
InitStats ==
    [requests_processed |-> 0, total_processing_time |-> 0,
     average_response_time |-> [num |-> 0, den |-> 1],
     errors |-> 0, rate_limit_hits |-> 0,
     normal_requests |-> 0, quick_requests |-> 0, timeouts |-> 0]

Max(a, b) == IF a >= b THEN a ELSE b

update_stats_mean_over_all(s, processing_time, error, quick) ==
    LET s1 == [s EXCEPT !.requests_processed = @ + 1]
        s2 == IF quick THEN [s1 EXCEPT !.quick_requests = @ + 1]
                       ELSE [s1 EXCEPT !.normal_requests = @ + 1]
    IN  IF ~error
        THEN LET total == s2.total_processing_time + processing_time
             IN  [s2 EXCEPT !.total_processing_time = total,
                            !.average_response_time =
                                [num |-> total,
                                 den |-> Max(s2.requests_processed, 1)]]
        ELSE [s2 EXCEPT !.errors = @ + 1]

update_stats(s, processing_time, error, quick) ==
    LET s1 == [s EXCEPT !.requests_processed = @ + 1]
        s2 == IF quick THEN [s1 EXCEPT !.quick_requests = @ + 1]
                       ELSE [s1 EXCEPT !.normal_requests = @ + 1]
    IN  IF ~error
        THEN LET total == s2.total_processing_time + processing_time
             IN  [s2 EXCEPT !.total_processing_time = total,
                            !.average_response_time =
                                [num |-> total,
                                 den |-> Max(s2.requests_processed - s2.errors, 1)]]
        ELSE [s2 EXCEPT !.errors = @ + 1]

(***************************************************************************)
(* resize_image_for_processing, lines 136-169.  An image is its size; the  *)
(* argument is an Image, so the check of line 139 passes.                  *)
(***************************************************************************)
\* lines 145-148
MaxSizeFor(quick) == IF quick THEN QuickMaxSize ELSE NormalMaxSize

\* int(a * max_size / b) of lines 153 and 157: the quotient of two positive
\* integers, truncated.
Truncated(a, max_size, b) == (a * max_size) \div b

\* lines 151-158: the size the image is to have.
Scaled(width, height, max_size) ==
    IF width > height
    THEN IF width > max_size
         THEN [width |-> max_size, height |-> Truncated(height, max_size, width)]
         ELSE [width |-> width, height |-> height]
    ELSE IF height > max_size
         THEN [width |-> Truncated(width, max_size, height), height |-> max_size]
         ELSE [width |-> width, height |-> height]

\* Image.resize of line 162 raises ValueError ("height and width must be
\* > 0") when asked for an empty image.
ResizeRaises(size) == size.width < 1 \/ size.height < 1

\* The whole function: the image it returns, or the ValueError of line 169.
resize_image_for_processing(width, height, quick) ==
    LET size == Scaled(width, height, MaxSizeFor(quick))
    IN  IF size.width # width \/ size.height # height
        THEN IF ResizeRaises(size)
             THEN [outcome |-> "ValueError", width |-> 0, height |-> 0]
             ELSE [outcome |-> "image", width |-> size.width, height |-> size.height]
        ELSE [outcome |-> "image", width |-> width, height |-> height]

(***************************************************************************)
(* generation_with_timeout, lines 243-270.  A generation thread is         *)
(* "running" until model.generate returns ("result"), returns None         *)
(* ("none") or raises ("exception"); a thread that is not running is not   *)
(* alive.  "unstarted" stands for a request that has no thread.  A thread  *)
(* whose request has returned is unreachable: only the number of those     *)
(* still running is kept.                                                  *)
(***************************************************************************)
JoinWaitsForWorker(w, elapsed, limit) == w # "running"

\* line 259: join(timeout) returns when the thread has ended or the timeout
\* has run out.
JoinDone(w, elapsed, limit) == w # "running" \/ elapsed >= limit

\* lines 261-270: what the call does once join() has returned.
Outcome(w) ==
    CASE w = "running"   -> "GenerationTimeoutError"
      [] w = "exception" -> "exception"
      [] w = "none"      -> "RuntimeError"
      [] OTHER           -> "generated_ids"

(***************************************************************************)
(* chat_completions, lines 272-510: the handler of one POST request, as    *)
(* the steps of the thread that serves it.                                 *)
(***************************************************************************)
NoResponse == [status |-> 0, retry_after |-> 0]

Reply(code) == [status |-> code, retry_after |-> 0]

\* line 290
RetryAfter(limit_type) ==
    IF limit_type = "minute" THEN RetryAfterMinute ELSE RetryAfterHour

\* line 400
TimeoutFor(quick) == IF quick THEN QuickTimeout ELSE NormalTimeout

\* A handler that returns leaves its frame: its locals are unbound again.
\* While it runs, a step keeps the locals it does not assign.
Frame(kept) ==
    IF pc' = "idle"
    THEN /\ quick_mode' = FALSE
         /\ start_time' = 0
         /\ generation_start' = 0
         /\ timeout' = 0
         /\ deadline_passed' = FALSE
    ELSE kept

RecordDenialAsError(s) ==
    update_stats([s EXCEPT !.rate_limit_hits = @ + 1], 0, TRUE, FALSE)

\* line 289
RecordDenial(s) == [s EXCEPT !.rate_limit_hits = @ + 1]

\* lines 277-296: availability gate, client identity, admission.
Admit(c) ==
    /\ pc = "idle"
    /\ client_ip' = c
    /\ body' = "none"
    /\ gc_collects' = 0
    /\ IF ~MODEL_AVAILABLE
       THEN /\ response' = Reply(503)
            /\ pc' = "idle"
            /\ UNCHANGED <<request_counts, stats>>
       ELSE LET r == rate_limit_check(request_counts[c], now)
            IN  /\ request_counts' = [request_counts EXCEPT ![c] = r.counts]
                /\ IF ~r.ok
                   THEN /\ stats' = RecordDenial(stats)
                        /\ response' = [status |-> 429,
                                        retry_after |-> RetryAfter(r.limit_type)]
                        /\ pc' = "idle"
                   ELSE /\ response' = NoResponse
                        /\ pc' = "parse"
                        /\ UNCHANGED stats
    /\ Frame(/\ start_time' = now
             /\ UNCHANGED <<quick_mode, generation_start, timeout, deadline_passed>>)
    /\ UNCHANGED <<now, MODEL_AVAILABLE, generation_thread, abandoned, concVars,
                   statVars, imgVars>>

\* The bodies a request may carry, by the path they take through lines
\* 298-350: no JSON (300), no messages (304), an image that fails
\* validate_image_data or resize (342), no image part (349), a content list
\* whose items are not objects, so that item.get raises (335), and a body
\* that passes.
EmptyBodies == {"no_json", "no_messages"}

RejectedBodies == EmptyBodies \cup {"bad_image", "no_image"}

Bodies == RejectedBodies \cup {"malformed", "valid"}

\* lines 487-510: the handler's outer except clause.
OuterExcept ==
    /\ gc_collects' = gc_collects + 1
    /\ stats' = update_stats(stats, now - start_time, TRUE, FALSE)
    /\ response' = Reply(500)
    /\ pc' = "idle"

\* lines 298-307: the body is read; data, messages and quick_mode are taken
\* from it.
Parse(bodies) ==
    /\ pc = "parse"
    /\ \E b \in bodies, q \in BOOLEAN :
          /\ body' = b
          /\ IF b \in EmptyBodies
             THEN /\ response' = Reply(400)
                  /\ pc' = "idle"
             ELSE /\ pc' = "extract"
                  /\ UNCHANGED response
          /\ Frame(/\ quick_mode' = q
                   /\ UNCHANGED <<start_time, generation_start, timeout,
                                  deadline_passed>>)
    /\ UNCHANGED <<now, MODEL_AVAILABLE, request_counts, stats, gc_collects,
                   client_ip, generation_thread, abandoned, envVars, concVars,
                   statVars, imgVars>>

\* lines 308-359: the generation parameters, the image and the prompt are
\* taken from the last message.
Extract ==
    /\ pc = "extract"
    /\ IF body \in RejectedBodies
       THEN /\ response' = Reply(400)
            /\ pc' = "idle"
            /\ UNCHANGED <<gc_collects, stats>>
       ELSE IF body = "malformed"
            THEN OuterExcept
            ELSE /\ pc' = "prepare"
                 /\ UNCHANGED <<response, gc_collects, stats>>
    /\ Frame(UNCHANGED <<quick_mode, start_time, generation_start, timeout,
                         deadline_passed>>)
    /\ UNCHANGED <<now, MODEL_AVAILABLE, request_counts, client_ip, body,
                   generation_thread, abandoned, envVars, concVars, statVars,
                   imgVars>>

\* What the engine's input preparation may do: succeed, or fail in
\* apply_chat_template (380), in the processor call (386) or in the move to
\* the device (394).
Preparations == {"ok", "template_error", "inputs_error", "device_error"}

\* lines 361-415 and 245-257: memory check, input preparation, and the start
\* of the generation thread.
Prepare ==
    /\ pc = "prepare"
    /\ \E memory_high \in BOOLEAN, p \in Preparations :
          /\ gc_collects' = IF memory_high THEN gc_collects + 1 ELSE gc_collects
          /\ IF p # "ok"
             THEN /\ response' = Reply(500)
                  /\ pc' = "idle"
                  /\ UNCHANGED generation_thread
             ELSE /\ generation_thread' = "running"
                  /\ pc' = "join"
                  /\ UNCHANGED response
    /\ Frame(/\ generation_start' = now
             /\ timeout' = TimeoutFor(quick_mode)
             /\ UNCHANGED <<quick_mode, start_time, deadline_passed>>)
    /\ UNCHANGED <<now, MODEL_AVAILABLE, request_counts, stats, client_ip, body,
                   abandoned, envVars, concVars, statVars, imgVars>>

\* lines 248-253: model.generate ends in the current request's thread.
Generate ==
    /\ generation_thread = "running"
    /\ \E w \in {"result", "none", "exception"} : generation_thread' = w
    /\ UNCHANGED <<now, MODEL_AVAILABLE, request_counts, stats, gc_collects,
                   handlerLocals, response, abandoned, envVars, concVars, statVars, imgVars>>

\* lines 248-253: model.generate ends in a thread whose request has timed out.
AbandonedEnds ==
    /\ abandoned > 0
    /\ abandoned' = abandoned - 1
    /\ UNCHANGED <<now, MODEL_AVAILABLE, request_counts, stats, gc_collects,
                   handlerLocals, response, generation_thread, envVars, concVars,
                   statVars, imgVars>>

\* Time passes while the handler waits in join().
Tick ==
    /\ pc = "join"
    /\ now - generation_start < timeout
    /\ now' = now + TickStep
    /\ UNCHANGED <<MODEL_AVAILABLE, request_counts, stats, gc_collects,
                   handlerLocals, response, generation_thread, abandoned, envVars,
                   concVars, statVars, imgVars>>

\* line 259: join() returns to the handler.
JoinReturn ==
    /\ pc = "join"
    /\ JoinDone(generation_thread, now - generation_start, timeout)
    /\ deadline_passed' = (generation_thread = "running")
    /\ pc' = "check_alive"
    /\ UNCHANGED <<now, MODEL_AVAILABLE, request_counts, stats, gc_collects,
                   client_ip, body, quick_mode, start_time, generation_start,
                   timeout, response, generation_thread, abandoned, envVars,
                   concVars, statVars, imgVars>>

\* lines 261-270 and 417-432: is_alive(), and what the handler makes of it.
CheckAlive ==
    /\ pc = "check_alive"
    /\ LET o == Outcome(generation_thread)
       IN  CASE o = "GenerationTimeoutError" ->
                  /\ stats' = [stats EXCEPT !.timeouts = @ + 1]
                  /\ response' = Reply(408)
                  /\ pc' = "idle"
                  /\ generation_thread' = "unstarted"
                  /\ abandoned' = abandoned + 1
                  /\ UNCHANGED gc_collects
             [] o \in {"exception", "RuntimeError"} ->
                  /\ gc_collects' = gc_collects + 1
                  /\ response' = Reply(500)
                  /\ pc' = "idle"
                  /\ generation_thread' = "unstarted"
                  /\ UNCHANGED <<stats, abandoned>>
             [] OTHER ->
                  /\ pc' = "decode"
                  /\ UNCHANGED <<stats, response, gc_collects, generation_thread,
                                 abandoned>>
    /\ Frame(UNCHANGED <<quick_mode, start_time, generation_start, timeout,
                         deadline_passed>>)
    /\ UNCHANGED <<now, MODEL_AVAILABLE, request_counts, client_ip, body,
                   envVars, concVars, statVars, imgVars>>

\* lines 434-485: decoding, reclamation, statistics, the 200 response.
Decode ==
    /\ pc = "decode"
    /\ \E decoded \in BOOLEAN :
          IF ~decoded
          THEN /\ response' = Reply(500)
               /\ UNCHANGED <<gc_collects, stats>>
          ELSE /\ gc_collects' = gc_collects + 1
               /\ stats' = update_stats(stats, now - start_time, FALSE, quick_mode)
               /\ response' = Reply(200)
    /\ pc' = "idle"
    /\ generation_thread' = "unstarted"
    /\ Frame(TRUE)
    /\ UNCHANGED <<now, MODEL_AVAILABLE, request_counts, client_ip, body,
                   abandoned, envVars, concVars, statVars, imgVars>>

(***************************************************************************)
(* Initial values.                                                         *)
(***************************************************************************)
IdleFrame == [pc |-> "idle", client |-> "c1", now |-> 0, pruned |-> <<>>]

IdleWriter == [pc |-> "idle", op |-> "none", field |-> "none", tmp |-> 0,
               error |-> FALSE, quick |-> FALSE, time |-> 0]

NoCounts == [requests_processed |-> 0, total_processing_time |-> 0, errors |-> 0,
             rate_limit_hits |-> 0, normal_requests |-> 0, quick_requests |-> 0,
             timeouts |-> 0]

NoSnapshot == [complete |-> FALSE, requests_processed |-> 0, normal_requests |-> 0,
               quick_requests |-> 0, average_response_time |-> [num |-> 0, den |-> 1],
               errors |-> 0, rate_base |-> 0]

NotCalled == [outcome |-> "none", width |-> 0, height |-> 0]

NoImage == [width |-> 0, height |-> 0, quick_mode |-> FALSE]

InitCommon ==
    /\ now = 0
    /\ stats = InitStats
    /\ gc_collects = 0
    /\ pc = "idle"
    /\ client_ip = "c1"
    /\ body = "none"
    /\ quick_mode = FALSE
    /\ start_time = 0
    /\ generation_start = 0
    /\ timeout = 0
    /\ deadline_passed = FALSE
    /\ response = NoResponse
    /\ generation_thread = "unstarted"
    /\ abandoned = 0
    /\ nticks = 0
    /\ nreq = 0
    /\ rl = [t \in Threads |-> IdleFrame]
    /\ st = [t \in Threads |-> IdleWriter]
    /\ expected = NoCounts
    /\ hpc = 0
    /\ snap = NoSnapshot
    /\ resize_result = NotCalled

(***************************************************************************)
(* The rate-limiter runs: requests arrive one at a time, each is rejected  *)
(* right after admission, and the clock jumps between requests.            *)
(***************************************************************************)
CountAt(w, t) == Cardinality({i \in DOMAIN w : w[i] = t})

BurstBoundary ==
    \/ response.status = 429
    \/ \A c \in Clients : CountAt(request_counts[c], now) % BurstSize = 0

Advance ==
    /\ pc = "idle"
    /\ nticks < MaxTicks
    /\ BurstBoundary
    /\ \E d \in TickSteps : now' = now + d
    /\ nticks' = nticks + 1
    /\ UNCHANGED <<MODEL_AVAILABLE, request_counts, stats, gc_collects,
                   handlerLocals, response, generation_thread, abandoned, nreq,
                   concVars, statVars, imgVars>>

OneHeavyClient(c) ==
    \/ Len(request_counts[c]) < LightCalls
    \/ \A d \in Clients \ {c} : Len(request_counts[d]) <= LightCalls

RLArrive ==
    /\ stats.rate_limit_hits < MaxDenials
    /\ \E c \in Clients : OneHeavyClient(c) /\ Admit(c)
    /\ UNCHANGED envVars

InitRL ==
    /\ InitCommon
    /\ resize_args = NoImage
    /\ MODEL_AVAILABLE \in BOOLEAN
    /\ request_counts = [c \in Clients |-> <<>>]
    /\ admitted = [c \in Clients |-> 0]

NextRL == Advance \/ RLArrive \/ Parse(EmptyBodies)

SpecRL == InitRL /\ [][NextRL]_vars

(***************************************************************************)
(* The lifecycle runs: requests arrive one at a time and take every path   *)
(* through the handler.  A run starts with empty windows, or with the      *)
(* window that MAX_REQUESTS_PER_MINUTE rejected requests of client c1      *)
(* leave behind.                                                           *)
(***************************************************************************)
Saturated == [i \in 1..MAX_REQUESTS_PER_MINUTE |-> 0]

Arrive ==
    /\ nreq < MaxRequests
    /\ nreq' = nreq + 1
    /\ \E c \in Clients : Admit(c)
    /\ UNCHANGED nticks

InitReq ==
    /\ InitCommon
    /\ resize_args = NoImage
    /\ MODEL_AVAILABLE \in BOOLEAN
    /\ request_counts \in {[c \in Clients |-> <<>>],
                           [c \in Clients |-> IF c = "c1" THEN Saturated ELSE <<>>]}
    /\ admitted = [c \in Clients |-> 0]

NextReq ==
    \/ Arrive
    \/ Parse(Bodies)
    \/ Extract
    \/ Prepare
    \/ Generate
    \/ AbandonedEnds
    \/ Tick
    \/ JoinReturn
    \/ CheckAlive
    \/ Decode

SpecReq == InitReq /\ [][NextReq]_vars

\* The handler thread keeps running and time keeps passing; nothing makes
\* model.generate return.
FairSpecReq ==
    /\ SpecReq
    /\ WF_vars(Tick)
    /\ WF_vars(JoinReturn)
    /\ WF_vars(CheckAlive)
    /\ WF_vars(Decode)

(***************************************************************************)
(* rate_limit_check run by several request threads at once (the server is  *)
(* started with threaded=True, line 520).  Each thread runs the function   *)
(* one statement at a time; the list comprehension of lines 33-36 is built *)
(* first and stored into request_counts second.                            *)
(***************************************************************************)
\* line 31
RLCall(t, c) ==
    /\ rl[t].pc = "idle"
    /\ rl' = [rl EXCEPT ![t] = [pc |-> "prune", client |-> c, now |-> now,
                                pruned |-> <<>>]]
    /\ UNCHANGED <<request_counts, admitted>>

\* lines 33-36, the right-hand side
RLPrune(t) ==
    /\ rl[t].pc = "prune"
    /\ rl' = [rl EXCEPT ![t].pruned = Prune(request_counts[rl[t].client], rl[t].now),
                        ![t].pc = "store"]
    /\ UNCHANGED <<request_counts, admitted>>

\* line 33, the assignment
RLStore(t) ==
    /\ rl[t].pc = "store"
    /\ request_counts' = [request_counts EXCEPT ![rl[t].client] = rl[t].pruned]
    /\ rl' = [rl EXCEPT ![t].pruned = <<>>, ![t].pc = "minute"]
    /\ UNCHANGED admitted

\* lines 38-40
RLMinute(t) ==
    /\ rl[t].pc = "minute"
    /\ IF MinuteExceeded(Recent(request_counts[rl[t].client], rl[t].now))
       THEN rl' = [rl EXCEPT ![t] = IdleFrame]
       ELSE rl' = [rl EXCEPT ![t].pc = "hour"]
    /\ UNCHANGED <<request_counts, admitted>>

\* lines 42-43
RLHour(t) ==
    /\ rl[t].pc = "hour"
    /\ IF HourExceeded(request_counts[rl[t].client])
       THEN rl' = [rl EXCEPT ![t] = IdleFrame]
       ELSE rl' = [rl EXCEPT ![t].pc = "append"]
    /\ UNCHANGED <<request_counts, admitted>>

\* lines 45-46
RLAppend(t) ==
    /\ rl[t].pc = "append"
    /\ request_counts' = [request_counts EXCEPT
                             ![rl[t].client] = Append(@, rl[t].now)]
    /\ admitted' = [admitted EXCEPT ![rl[t].client] = @ + 1]
    /\ rl' = [rl EXCEPT ![t] = IdleFrame]

ConcFrame ==
    UNCHANGED <<now, MODEL_AVAILABLE, stats, gc_collects, handlerLocals, response,
                generation_thread, abandoned, nticks, statVars, imgVars>>

ConcCall ==
    /\ nreq < MaxCalls
    /\ nreq' = nreq + 1
    /\ \E t \in Threads, c \in Clients : RLCall(t, c)
    /\ ConcFrame

ConcStep ==
    /\ \E t \in Threads :
          \/ RLPrune(t)
          \/ RLStore(t)
          \/ RLMinute(t)
          \/ RLHour(t)
          \/ RLAppend(t)
    /\ UNCHANGED nreq
    /\ ConcFrame

\* A run starts with empty windows, or with the window that
\* MAX_REQUESTS_PER_MINUTE - 1 admitted requests of client c1 leave behind.
AlmostSaturated == [i \in 1..(MAX_REQUESTS_PER_MINUTE - 1) |-> 0]

InitConc ==
    /\ InitCommon
    /\ resize_args = NoImage
    /\ MODEL_AVAILABLE = TRUE
    /\ request_counts \in
          {[c \in Clients |-> <<>>],
           [c \in Clients |-> IF c = "c1" THEN AlmostSaturated ELSE <<>>]}
    /\ admitted = [c \in Clients |-> Len(request_counts[c])]

NextConc == ConcCall \/ ConcStep

SpecConc == InitConc /\ [][NextConc]_vars

(***************************************************************************)
(* The writes to stats run by several request threads at once:             *)
(* update_stats (lines 121-134, called at 455 and 498), the rate-limit     *)
(* counter (289) and the timeout counter (420).  stats[k] += v reads       *)
(* stats[k] and stores the sum in two steps.  GET /health (lines 207-238)  *)
(* reads the counters one after the other.                                 *)
(***************************************************************************)
ProcessingTimes == {2}

FirstField(op) ==
    CASE op = "update_stats"   -> "requests_processed"
      [] op = "rate_limit_hit" -> "rate_limit_hits"
      [] OTHER                 -> "timeouts"

\* The statement that follows the += on field f in the call of frame w.
NextField(w, f) ==
    CASE w.op # "update_stats"   -> "return"
      [] f = "requests_processed" ->
            IF w.quick THEN "quick_requests" ELSE "normal_requests"
      [] f \in {"quick_requests", "normal_requests"} ->
            IF ~w.error THEN "total_processing_time" ELSE "errors"
      [] f = "total_processing_time" -> "average_response_time"
      [] OTHER -> "return"

Increment(w, f) == IF f = "total_processing_time" THEN w.time ELSE 1

\* What a call asks the counters to grow by.
Asked(e, w) ==
    IF w.op = "update_stats"
    THEN LET e1 == [e EXCEPT !.requests_processed = @ + 1]
             e2 == IF w.quick THEN [e1 EXCEPT !.quick_requests = @ + 1]
                              ELSE [e1 EXCEPT !.normal_requests = @ + 1]
         IN  IF w.error THEN [e2 EXCEPT !.errors = @ + 1]
                        ELSE [e2 EXCEPT !.total_processing_time = @ + w.time]
    ELSE [e EXCEPT ![FirstField(w.op)] = @ + 1]

StCall(t) ==
    /\ st[t].pc = "idle"
    /\ \E op \in {"update_stats", "rate_limit_hit", "timeout"},
          error \in BOOLEAN, quick \in BOOLEAN, time \in ProcessingTimes :
          LET w == [pc |-> "load", op |-> op, field |-> FirstField(op), tmp |-> 0,
                    error |-> (op = "update_stats" /\ error),
                    quick |-> (op = "update_stats" /\ quick),
                    time |-> IF op = "update_stats" /\ ~error THEN time ELSE 0]
          IN  /\ st' = [st EXCEPT ![t] = w]
              /\ expected' = Asked(expected, w)
    /\ UNCHANGED stats

\* stats[k] += v, the read
StLoad(t) ==
    /\ st[t].pc = "load"
    /\ st' = [st EXCEPT ![t].tmp = stats[st[t].field], ![t].pc = "store"]
    /\ UNCHANGED <<stats, expected>>

\* stats[k] += v, the write
StStore(t) ==
    /\ st[t].pc = "store"
    /\ LET w == st[t]
           f == NextField(w, w.field)
       IN  /\ stats' = [stats EXCEPT ![w.field] = w.tmp + Increment(w, w.field)]
           /\ st' = [st EXCEPT ![t] =
                        IF f = "return" THEN IdleWriter
                        ELSE IF f = "average_response_time"
                        THEN [w EXCEPT !.pc = "average", !.field = f, !.tmp = 0]
                        ELSE [w EXCEPT !.pc = "load", !.field = f, !.tmp = 0]]
    /\ UNCHANGED expected

\* line 132
StAverage(t) ==
    /\ st[t].pc = "average"
    /\ stats' = [stats EXCEPT !.average_response_time =
                    [num |-> stats.total_processing_time,
                     den |-> Max(stats.requests_processed - stats.errors, 1)]]
    /\ st' = [st EXCEPT ![t] = IdleWriter]
    /\ UNCHANGED expected

\* lines 230-234: the order in which health() reads the counters.
HealthReads == <<"requests_processed", "normal_requests", "quick_requests",
                 "average_response_time", "errors", "requests_processed">>

HealthStart ==
    /\ hpc = 0
    /\ hpc' = 1
    /\ snap' = NoSnapshot

HealthRead ==
    /\ hpc \in DOMAIN HealthReads
    /\ LET f == HealthReads[hpc]
       IN  snap' = [snap EXCEPT
                       !.requests_processed = IF hpc = 1 THEN stats[f] ELSE @,
                       !.normal_requests = IF hpc = 2 THEN stats[f] ELSE @,
                       !.quick_requests = IF hpc = 3 THEN stats[f] ELSE @,
                       !.average_response_time = IF hpc = 4 THEN stats[f] ELSE @,
                       !.errors = IF hpc = 5 THEN stats[f] ELSE @,
                       !.rate_base = IF hpc = 6 THEN stats[f] ELSE @,
                       !.complete = (hpc = Len(HealthReads))]
    /\ hpc' = IF hpc = Len(HealthReads) THEN 0 ELSE hpc + 1

StatFrame ==
    UNCHANGED <<now, MODEL_AVAILABLE, request_counts, gc_collects, handlerLocals,
                response, generation_thread, abandoned, nticks, concVars, imgVars>>

StatCall ==
    /\ nreq < MaxWrites
    /\ nreq' = nreq + 1
    /\ \E t \in Threads : StCall(t)
    /\ UNCHANGED <<hpc, snap>>
    /\ StatFrame

StatStep ==
    /\ \E t \in Threads :
          \/ StLoad(t)
          \/ StStore(t)
          \/ StAverage(t)
    /\ UNCHANGED <<nreq, hpc, snap>>
    /\ StatFrame

Health ==
    /\ HealthStart \/ HealthRead
    /\ UNCHANGED <<stats, st, expected, nreq>>
    /\ StatFrame

InitStat ==
    /\ InitCommon
    /\ resize_args = NoImage
    /\ MODEL_AVAILABLE = TRUE
    /\ request_counts = [c \in Clients |-> <<>>]
    /\ admitted = [c \in Clients |-> 0]

NextStat == StatCall \/ StatStep \/ Health

SpecStats == InitStat /\ [][NextStat]_vars

(***************************************************************************)
(* The resize runs: one call of resize_image_for_processing on an image    *)
(* of any size up to MaxEdge x MaxEdge, in either mode.                    *)
(***************************************************************************)
Resize ==
    /\ resize_result = NotCalled
    /\ resize_result' = resize_image_for_processing(resize_args.width,
                                                    resize_args.height,
                                                    resize_args.quick_mode)
    /\ UNCHANGED <<now, MODEL_AVAILABLE, request_counts, stats, gc_collects,
                   handlerLocals, response, generation_thread, abandoned, envVars,
                   concVars, statVars, resize_args>>

InitResize ==
    /\ InitCommon
    /\ MODEL_AVAILABLE = TRUE
    /\ request_counts = [c \in Clients |-> <<>>]
    /\ admitted = [c \in Clients |-> 0]
    /\ resize_args \in [width : 1..MaxEdge, height : 1..MaxEdge, quick_mode : BOOLEAN]

NextResize == Resize

SpecResize == InitResize /\ [][NextResize]_vars

(***************************************************************************)
(* Claims about the rate limiter, under SpecRL.                            *)
(***************************************************************************)
\* The timestamps of client c that are younger than 60 seconds.
InMinute(c) ==
    Cardinality({i \in DOMAIN request_counts[c] : now - request_counts[c][i] < 60})

\* The timestamps of client c that are younger than 3600 seconds.
InHour(c) ==
    Cardinality({i \in DOMAIN request_counts[c] : now - request_counts[c][i] < 3600})

\* C1: while all of a client's admitted requests lie within the last 60
\* seconds, a request that finds fewer than 60 of them is admitted and its
\* timestamp recorded (the first 60 calls), and the request that finds 60 is
\* the 61st: it is answered 429 with retry_after = 60.
C1_MinuteCeiling ==
    [][\A c \in Clients :
          (MODEL_AVAILABLE /\ Admit(c) /\ InMinute(c) = Len(request_counts[c]))
          => IF Len(request_counts[c]) < 60
             THEN /\ pc' = "parse"
                  /\ Len(request_counts'[c]) = Len(request_counts[c]) + 1
             ELSE /\ Len(request_counts[c]) = 60
                  /\ pc' = "idle"
                  /\ response' = [status |-> 429, retry_after |-> 60]]_vars

\* The 61st request of one second has been answered 429 / 60.
C1_Witness ==
    /\ response = [status |-> 429, retry_after |-> 60]
    /\ Len(request_counts[client_ip]) = 60
    /\ \A i \in 1..60 : request_counts[client_ip][i] = now

\* C2: a request of a client with 100 admitted requests in the trailing 3600
\* seconds and fewer than 60 in the trailing 60 seconds is answered 429 with
\* retry_after = 3600.
C2_HourCeiling ==
    [][\A c \in Clients :
          (MODEL_AVAILABLE /\ Admit(c) /\ InHour(c) >= 100 /\ InMinute(c) < 60)
          => /\ pc' = "idle"
             /\ response' = [status |-> 429, retry_after |-> 3600]]_vars

\* A request has been answered 429 / 3600 with the hour full and the minute not.
C2_Witness ==
    /\ response = [status |-> 429, retry_after |-> 3600]
    /\ InHour(client_ip) = 100
    /\ InMinute(client_ip) < 60

\* C13: a check that denies stores no timestamp the client's window did not
\* hold before, a check that allows stores the current time once more, and
\* neither changes the window of any other client.
C13_RecordsOnlyWhenAllowed ==
    [][\A c \in Clients :
          (MODEL_AVAILABLE /\ Admit(c))
          => LET old == request_counts[c]
                 new == request_counts'[c]
             IN  /\ \A d \in Clients \ {c} : request_counts'[d] = request_counts[d]
                 /\ IF response'.status = 429
                    THEN /\ Len(new) <= Len(old)
                         /\ \A i \in DOMAIN new :
                               CountAt(new, new[i]) <= CountAt(old, new[i])
                    ELSE /\ pc' = "parse"
                         /\ CountAt(new, now) = CountAt(old, now) + 1]_vars

\* A client has been denied twice and its window still holds 60 timestamps,
\* next to the window of another client.
C13_Witness ==
    /\ response.status = 429
    /\ stats.rate_limit_hits = 2
    /\ Len(request_counts[client_ip]) = 60
    /\ \E d \in Clients \ {client_ip} : Len(request_counts[d]) = 1

\* C14: right after a check for client c at time now every timestamp stored
\* for c is younger than 3600 seconds, and the check allows exactly when the
\* timestamps younger than 3600 and 60 seconds are below their ceilings.
C14_PurgedBeforeCheck ==
    [][\A c \in Clients :
          (MODEL_AVAILABLE /\ Admit(c))
          => /\ \A i \in DOMAIN request_counts'[c] :
                   now - request_counts'[c][i] < 3600
             /\ (pc' = "parse") <=> (InMinute(c) < 60 /\ InHour(c) < 100)]_vars

\* A client that was denied with 100 timestamps stored is admitted at time
\* 3600 with the 60 timestamps of time 0 purged: 40 old ones and the new one.
C14_Witness ==
    /\ pc = "parse"
    /\ now = 3600
    /\ stats.rate_limit_hits > 0
    /\ Len(request_counts[client_ip]) = 41
    /\ request_counts[client_ip][41] = now

\* C15: a request of a client with at least 60 timestamps in the trailing 60
\* seconds and at least 100 in the trailing 3600 seconds is denied with
\* scope "minute": 429 with retry_after = 60.
C15_MinuteGateFirst ==
    [][\A c \in Clients :
          (MODEL_AVAILABLE /\ Admit(c) /\ InMinute(c) >= 60 /\ InHour(c) >= 100)
          => /\ pc' = "idle"
             /\ response' = [status |-> 429, retry_after |-> 60]]_vars

\* A request has been answered 429 / 60 with both windows full.
C15_Witness ==
    /\ response = [status |-> 429, retry_after |-> 60]
    /\ InMinute(client_ip) = 60
    /\ InHour(client_ip) = 100

\* C18: with the checks run one after the other, every client's stored
\* window holds at most MAX_REQUESTS_PER_HOUR timestamps, and at most
\* MAX_REQUESTS_PER_MINUTE of them are younger than 60 seconds.
C18_WindowBounded ==
    \A c \in Clients :
       /\ Len(request_counts[c]) <= MAX_REQUESTS_PER_HOUR
       /\ InMinute(c) <= MAX_REQUESTS_PER_MINUTE

\* The 100th request of a client has been admitted, 60 of them in the last
\* minute.
C18_Witness ==
    /\ response.status = 400
    /\ Len(request_counts[client_ip]) = MAX_REQUESTS_PER_HOUR
    /\ InMinute(client_ip) = MAX_REQUESTS_PER_MINUTE

\* C19: the request a client sends after minute-scope denials is admitted
\* once the oldest of the 60 timestamps that were recent is 60 seconds old
\* and fewer than 100 timestamps lie in the trailing 3600 seconds; the
\* request it sends after hour-scope denials is admitted once the oldest
\* stored timestamp is 3600 seconds old.
C19_NoPermanentLockout ==
    [][\A c \in Clients :
          LET w == request_counts[c]
          IN  (MODEL_AVAILABLE /\ Admit(c) /\ c = client_ip /\ response.status = 429)
              => /\ (/\ response.retry_after = 60
                     /\ now - w[Len(w) - 59] >= 60
                     /\ InHour(c) < 100) => pc' = "parse"
                 /\ (/\ response.retry_after = 3600
                     /\ now - w[1] >= 3600) => pc' = "parse"]_vars

\* A client that was denied twice within its full minute has been admitted 60
\* seconds after the 60 requests that filled it.
C19_Witness ==
    /\ pc = "parse"
    /\ stats.rate_limit_hits = 2
    /\ Len(request_counts[client_ip]) = 61
    /\ request_counts[client_ip][1] = now - 60
    /\ request_counts[client_ip][60] = now - 60
    /\ request_counts[client_ip][61] = now

\* A client that was denied with its hour full has been admitted 3600 seconds
\* after its oldest request.
C19_WitnessHour ==
    /\ pc = "parse"
    /\ stats.rate_limit_hits > 0
    /\ now = 3600
    /\ Len(request_counts[client_ip]) = 41
    /\ request_counts[client_ip][1] = 60

(***************************************************************************)
(* Claims about one request's path through the handler, under SpecReq.     *)
(***************************************************************************)
\* C3: when join() ended because the deadline ran out with the generation
\* thread still running, the handler answers 408 whatever the thread does
\* afterwards, and the end of an abandoned thread changes no response.
C3_TimeoutNeverSuccess ==
    [][/\ (pc = "check_alive" /\ deadline_passed /\ pc' # "check_alive")
            => (pc' = "idle" /\ response'.status = 408)
       /\ (abandoned' < abandoned) => (response' = response)]_vars

\* C4: the step that returns the response of a request that reached the
\* generation step (the timeout, the engine failure, the success) runs the
\* reclamation (gc.collect) first.
C4_ReclaimOnEveryPath ==
    [][((pc = "check_alive" /\ pc' = "idle")
          \/ (pc = "decode" /\ response'.status = 200))
          => gc_collects' = gc_collects + 1]_vars

\* C5: a request that ends in a failure after admission (408 or 500) has
\* added one to requests_processed and one to errors when it returns, and a
\* timeout one to timeouts as well.
C5_FailureRecorded ==
    [][(pc \in {"parse", "extract", "prepare", "check_alive", "decode"} /\ pc' = "idle"
          /\ response'.status \in {408, 500})
          => /\ stats'.requests_processed = stats.requests_processed + 1
             /\ stats'.errors = stats.errors + 1
             /\ stats'.timeouts =
                   stats.timeouts + (IF response'.status = 408 THEN 1 ELSE 0)]_vars

\* C9: the step that returns a response gives the status code of the
\* request's class: 503 exactly when the engine is unavailable, 429 exactly
\* when the limiter denies, 400 for every body that fails validation, 408
\* exactly when the deadline ran out, 500 when the engine failed within the
\* deadline or decoding failed, 200 only after a generation that returned
\* within the deadline.
C9_StatusByClass ==
    [][(pc' = "idle" /\ response' # NoResponse
          /\ (pc # "idle" \/ \E c \in Clients : Admit(c)))
          => LET s == response'.status
             IN  /\ s \in {503, 429, 400, 408, 500, 200}
                 /\ (s = 503) <=> ~MODEL_AVAILABLE
                 /\ (s = 429) <=> (MODEL_AVAILABLE /\ pc = "idle")
                 /\ (pc \in {"parse", "extract"}) => s = 400
                 /\ (s = 400) => pc \in {"parse", "extract"}
                 /\ (s = 408) <=> (pc = "check_alive" /\ deadline_passed)
                 /\ (pc = "check_alive" /\ ~deadline_passed) => s = 500
                 /\ (s = 200) => (pc = "decode" /\ ~deadline_passed)]_vars

\* C12: a request denied by the rate limiter adds one to rate_limit_hits,
\* leaves every other statistic as it was and starts no generation thread.
C12_DenialOnlyCountsHit ==
    [][\A c \in Clients :
          (Admit(c) /\ response'.status = 429)
          => /\ stats'.rate_limit_hits = stats.rate_limit_hits + 1
             /\ \A f \in DOMAIN stats \ {"rate_limit_hits"} : stats'[f] = stats[f]
             /\ generation_thread' = generation_thread
             /\ generation_thread = "unstarted"
             /\ abandoned' = abandoned
             /\ pc' = "idle"]_vars

\* A request has been denied after an earlier request was recorded.
C12_Witness ==
    /\ response.status = 429
    /\ stats.rate_limit_hits = 1
    /\ stats.requests_processed = 1
    /\ pc = "idle"

\* C16: a step that records a request in the stats adds one to the counter
\* of the request's own mode (quick_requests for quick_mode = true,
\* normal_requests otherwise) and leaves the other mode's counter alone.
C16_OwnModeCounter ==
    [][(stats'.requests_processed = stats.requests_processed + 1)
          => IF quick_mode
             THEN /\ stats'.quick_requests = stats.quick_requests + 1
                  /\ stats'.normal_requests = stats.normal_requests
             ELSE /\ stats'.normal_requests = stats.normal_requests + 1
                  /\ stats'.quick_requests = stats.quick_requests]_vars

\* C17: once a success has been recorded, average_response_time is
\* total_processing_time / (requests_processed - errors), and a step that
\* records a failure changes neither of the two.
C17_MeanOverSuccesses ==
    /\ [](stats.requests_processed - stats.errors >= 1
            => stats.average_response_time.num
                  * (stats.requests_processed - stats.errors)
               = stats.total_processing_time * stats.average_response_time.den)
    /\ [][(stats'.errors = stats.errors + 1)
            => /\ stats'.total_processing_time = stats.total_processing_time
               /\ stats'.average_response_time = stats.average_response_time]_vars

\* A failure and a success that took 30 seconds have been recorded.
C17_Witness ==
    /\ pc = "idle"
    /\ stats.requests_processed = 2
    /\ stats.errors = 1
    /\ stats.total_processing_time = 30
    /\ stats.average_response_time = [num |-> 30, den |-> 1]

\* C20: an admitted request has its timestamp stored before its body is
\* looked at, a request answered 400 leaves that timestamp in its client's
\* window, and a request answered 503 stores no timestamp and changes no
\* statistic.
C20_AdmissionBeforeValidation ==
    [][/\ \A c \in Clients :
             /\ (Admit(c) /\ pc' = "parse")
                   => /\ body' = "none"
                      /\ Len(request_counts'[c]) = Len(request_counts[c]) + 1
                      /\ request_counts'[c][Len(request_counts'[c])] = now
             /\ (Admit(c) /\ ~MODEL_AVAILABLE)
                   => /\ response'.status = 503
                      /\ request_counts' = request_counts
                      /\ stats' = stats
       /\ (pc \in {"parse", "extract"} /\ response'.status = 400)
             => LET w == request_counts'[client_ip]
                IN  /\ request_counts' = request_counts
                    /\ Len(w) >= 1
                    /\ w[Len(w)] = start_time]_vars

\* A request without a usable image has been answered 400 and its timestamp
\* is the latest of its client's window.
C20_Witness ==
    /\ pc = "idle"
    /\ response.status = 400
    /\ body \in {"bad_image", "no_image"}
    /\ Len(request_counts[client_ip]) >= 1
    /\ request_counts[client_ip][Len(request_counts[client_ip])] = now

\* C10: a request waiting in join() is answered in the end, whether or not
\* model.generate ever returns.
C10_NoRequestHangs == (pc = "join") ~> (pc = "idle")

\* A request has been answered 408 while its generation thread still runs.
C10_Witness ==
    /\ pc = "idle"
    /\ response.status = 408
    /\ abandoned > 0

(***************************************************************************)
(* Claims about concurrent requests, under SpecConc and SpecStats.         *)
(***************************************************************************)
\* C6: with no call of rate_limit_check in progress, a client's window holds
\* every timestamp admitted for it, and no client is admitted more often in
\* one second than the per-minute and per-hour ceilings allow.
C6_ConcurrentAdmission ==
    \A c \in Clients :
       /\ (\A t \in Threads : rl[t].pc = "idle")
             => Len(request_counts[c]) = admitted[c]
       /\ admitted[c] <= MAX_REQUESTS_PER_MINUTE
       /\ admitted[c] <= MAX_REQUESTS_PER_HOUR

\* C7: when every stats write has finished, each counter has grown by what
\* the calls asked for.
C7_NoLostIncrement ==
    (\A t \in Threads : st[t].pc = "idle")
       => \A f \in DOMAIN expected : stats[f] = expected[f]

\* C8: every snapshot GET /health returns is one the counters were in at
\* some moment: its requests_processed is the sum of its two mode counters
\* and bounds its errors.
C8_NoTornSnapshot ==
    snap.complete
       => /\ snap.requests_processed = snap.normal_requests + snap.quick_requests
          /\ snap.errors <= snap.requests_processed

(***************************************************************************)
(* Claims about resize_image_for_processing, under SpecResize.             *)
(***************************************************************************)
LongerEdge(size) == Max(size.width, size.height)

ShorterEdge(size) == IF size.width <= size.height THEN size.width ELSE size.height

\* C11: a call on an image whose longer edge M exceeds the cap C of its mode
\* returns an image with longer edge C and shorter edge floor(shorter * C / M);
\* a call on an image within the cap returns it unchanged.
C11_ResizeLaw ==
    resize_result # NotCalled
       => LET C == IF resize_args.quick_mode THEN 216 ELSE 382
              M == LongerEdge(resize_args)
          IN  /\ resize_result.outcome = "image"
              /\ IF M > C
                 THEN /\ LongerEdge(resize_result) = C
                      /\ ShorterEdge(resize_result) = (ShorterEdge(resize_args) * C) \div M
                 ELSE /\ resize_result.width = resize_args.width
                      /\ resize_result.height = resize_args.height

====
